---- MODULE Spec2Model ----
(***************************************************************************)
(* Model of the WhatsApp football bot (src/app.py): a Flask webhook that   *)
(* loads the whole JSON store, interprets one chat command, and writes the *)
(* whole store back.  Requests are served by concurrent workers, so loads  *)
(* and saves of different requests interleave; nothing in the code locks   *)
(* the store.                                                              *)
(***************************************************************************)
EXTENDS Integers, Sequences, FiniteSets, Bags, TLC

VARIABLES
    store,      \* the persisted content of DATA_FILE (players.json)
    inflight,   \* per worker: idle, or the snapshot `data` its request loaded
    last,       \* the request the latest step finished: its form and reply
    crowned,    \* senders that were sent the bootstrap-success reply
    batch,      \* requests that all loaded the same store and have finished
    tplayers,   \* create_teams: the argument `players`
    tdraws,     \* create_teams: the draws random.shuffle has made so far
    tteams,     \* create_teams: the returned `teams`
    tpc         \* create_teams: "shuffle" | "done"

vars == <<store, inflight, last, crowned, batch, tplayers, tdraws, tteams, tpc>>
teamVars == <<tplayers, tdraws, tteams, tpc>>

----------------------------------------------------------------------------
(* Bounds and program constants *)

PLAYERS_PER_TEAM == 6

\* largest argument of create_teams that is explored
MaxPlayers == 13
\* largest number of draws of one shuffle that move an element
MaxSwaps == 2

\* the identities (the `From` field) that send messages
Senders == {"A", "B"}
\* the workers that serve requests concurrently
Workers == {"w1", "w2"}

----------------------------------------------------------------------------
(* Text: message bodies are sequences of characters *)

UpperChars == <<"A", "D", "E", "I", "M", "N", "O", "R", "S", "T", "U">>
LowerChars == <<"a", "d", "e", "i", "m", "n", "o", "r", "s", "t", "u">>

\* str.lower() on one character
LowerChar(c) ==
    IF \E i \in 1..Len(UpperChars) : UpperChars[i] = c
    THEN LowerChars[CHOOSE i \in 1..Len(UpperChars) : UpperChars[i] = c]
    ELSE c

Lower(s) == [i \in 1..Len(s) |-> LowerChar(s[i])]

RECURSIVE LStrip(_)
LStrip(s) == IF s # <<>> /\ Head(s) = " " THEN LStrip(Tail(s)) ELSE s

RECURSIVE RStrip(_)
RStrip(s) ==
    IF s # <<>> /\ s[Len(s)] = " " THEN RStrip(SubSeq(s, 1, Len(s) - 1)) ELSE s

\* str.strip()
Strip(s) == RStrip(LStrip(s))

\* str.startswith(p)
StartsWith(s, p) == Len(s) >= Len(p) /\ SubSeq(s, 1, Len(p)) = p

K_addadmin == <<"/", "a", "d", "d", "a", "d", "m", "i", "n">>
K_start == <<"/", "s", "t", "a", "r", "t">>
K_end == <<"/", "e", "n", "d">>
K_status == <<"/", "s", "t", "a", "t", "u", "s">>
K_reset == <<"/", "r", "e", "s", "e", "t">>
K_in == <<"i", "n">>
K_out == <<"o", "u", "t">>
K_help == <<"/", "h", "e", "l", "p">>
K_slash == <<"/">>

\* the message bodies (the `Body` field) that are sent
B_in == <<" ", "I", "n">>
Bodies == {
    <<"/", "A", "d", "d", "A", "d", "m", "i", "n", " ", "m", "e">>,
    <<" ", "/", "S", "t", "a", "r", "t", " ">>,
    <<"/", "E", "N", "D">>,
    <<"/", "s", "t", "a", "t", "u", "s">>,
    <<"/", "r", "e", "s", "e", "t", " ">>,
    B_in,
    <<"o", "u", "t">>,
    <<"/", "h", "e", "l", "p">>,
    <<"/", "s", "t", "a", "r", "t", "s">>,
    <<"h", "i">> }

----------------------------------------------------------------------------
(* The store *)

EmptyMap == [x \in {} |-> x]

init_data ==
    [ admins |-> <<>>,
      players |-> EmptyMap,
      session |-> [active |-> FALSE, participants |-> <<>>] ]

\* the content of DATA_FILE after open(DATA_FILE, "w") truncated it and the
\* write did not complete: not a JSON document
Truncated == [truncated |-> TRUE]

\* load_data treating a failed read as a success
load_data_retries(file, fails) ==
    IF file = Truncated THEN init_data ELSE file

\* load_data(): `file` is the content of DATA_FILE (init_data standing for the
\* file that does not exist yet), `fails` tells whether open or read raises;
\* json.load raises on a truncated file; every exception gives init_data()
load_data(file, fails) ==
    IF fails \/ file = Truncated THEN init_data ELSE file

\* how a save goes: no exception, open(DATA_FILE, "w") raises, or json.dump
\* (or the flush at close) raises after open truncated the file
Faults == {"none", "open", "write"}

\* save_data(data): the content of DATA_FILE afterwards; every exception is
\* caught and printed
save_data(file, data, fault) ==
    CASE fault = "none" -> data
      [] fault = "open" -> file
      [] fault = "write" -> Truncated

Range(s) == {s[i] : i \in 1..Len(s)}

\* `x in list`
InList(x, s) == \E i \in 1..Len(s) : s[i] = x

is_admin(phone, data) == InList(phone, data.admins)

\* list.remove(x): drops the first occurrence
RECURSIVE ListRemove(_, _)
ListRemove(s, x) ==
    IF s = <<>> THEN <<>>
    ELSE IF Head(s) = x THEN Tail(s)
    ELSE <<Head(s)>> \o ListRemove(Tail(s), x)

\* dict.get(phone, {"name": "Unknown"})
PlayerInfo(data, phone) ==
    IF phone \in DOMAIN data.players THEN data.players[phone]
    ELSE [name |-> "Unknown"]

----------------------------------------------------------------------------
(* create_teams *)

Min(a, b) == IF a < b THEN a ELSE b

Swap(x, i, j) == [x EXCEPT ![i] = x[j], ![j] = x[i]]

\* random.shuffle(x): for i = n down to 2, swap x[i] with x[j], j drawn from
\* 1..i; draws[k] is the draw made for i = n - k + 1.
RECURSIVE ShuffleFrom(_, _, _)
ShuffleFrom(x, draws, k) ==
    IF k > Len(draws) THEN x
    ELSE ShuffleFrom(Swap(x, Len(x) - k + 1, draws[k]), draws, k + 1)

Shuffle(x, draws) == ShuffleFrom(x, draws, 1)

\* the draws random.shuffle can make on a list of n elements
Draws(n) ==
    IF n <= 1 THEN {<<>>}
    ELSE {d \in [1..(n - 1) -> 1..n] : \A k \in 1..(n - 1) : d[k] <= n - k + 1}

\* range(start, stop, step) as the list of its values
RECURSIVE PyRange(_, _, _)
PyRange(start, stop, step) ==
    IF start >= stop THEN <<>>
    ELSE <<start>> \o PyRange(start + step, stop, step)

\* shuffled[i:i+PLAYERS_PER_TEAM], i counted from 0
Slice(shuffled, i) ==
    SubSeq(shuffled, i + 1, Min(i + PLAYERS_PER_TEAM, Len(shuffled)))

\* create_teams with the loop stopping before a partial last team
create_teams_full_only(players, draws) ==
    LET num_players == Len(players) IN
    IF num_players = 0 THEN <<>>
    ELSE LET shuffled == Shuffle(players, draws)
             starts == PyRange(0, num_players - PLAYERS_PER_TEAM + 1,
                               PLAYERS_PER_TEAM)
         IN  [t \in 1..Len(starts) |-> Slice(shuffled, starts[t])]

create_teams(players, draws) ==
    LET num_players == Len(players) IN
    IF num_players = 0 THEN <<>>
    ELSE LET shuffled == Shuffle(players, draws)
             starts == PyRange(0, num_players, PLAYERS_PER_TEAM)
         IN  [t \in 1..Len(starts) |-> Slice(shuffled, starts[t])]

----------------------------------------------------------------------------
(* The webhook handler *)

Reply(kind, args) == [kind |-> kind, args |-> args]

\* what one run of the handler leaves behind: the local `data`, whether
\* save_data(data) was called, and the reply body
Outcome(data, saved, reply) == [data |-> data, saved |-> saved, reply |-> reply]

\* AddAdmin letting any non-admin register, admins existing or not
AddAdmin_open(data, sender) ==
    IF ~is_admin(sender, data)
    THEN Outcome([data EXCEPT !.admins = Append(@, sender)], TRUE,
                 Reply("now_admin", <<>>))
    ELSE Outcome(data, FALSE, Reply("already_admin", <<>>))

\* AddAdmin letting a second identity register
AddAdmin_second(data, sender) ==
    IF ~is_admin(sender, data) /\ Len(data.admins) <= 1
    THEN Outcome([data EXCEPT !.admins = Append(@, sender)], TRUE,
                 Reply("now_admin", <<>>))
    ELSE IF is_admin(sender, data)
    THEN Outcome(data, FALSE, Reply("already_admin", <<>>))
    ELSE Outcome(data, FALSE, Reply("only_admins_add", <<>>))

AddAdmin(data, sender) ==
    IF ~is_admin(sender, data) /\ Len(data.admins) = 0
    THEN Outcome([data EXCEPT !.admins = Append(@, sender)], TRUE,
                 Reply("now_admin", <<>>))
    ELSE IF is_admin(sender, data)
    THEN Outcome(data, FALSE, Reply("already_admin", <<>>))
    ELSE Outcome(data, FALSE, Reply("only_admins_add", <<>>))

\* CmdStart without the admin check
CmdStart_unchecked(data, sender) ==
    Outcome([data EXCEPT !.session.active = TRUE,
                         !.session.participants = <<>>], TRUE,
            Reply("started", <<>>))

\* CmdStart opening the session over the roster that is there
CmdStart_keeps_roster(data, sender) ==
    IF ~is_admin(sender, data)
    THEN Outcome(data, FALSE, Reply("only_admins_start", <<>>))
    ELSE Outcome([data EXCEPT !.session.active = TRUE], TRUE,
                 Reply("started", <<>>))

CmdStart(data, sender) ==
    IF ~is_admin(sender, data)
    THEN Outcome(data, FALSE, Reply("only_admins_start", <<>>))
    ELSE Outcome([data EXCEPT !.session.active = TRUE,
                              !.session.participants = <<>>], TRUE,
                 Reply("started", <<>>))

\* CmdEnd clearing the roster as /reset does
CmdEnd_clears(data, sender, draws) ==
    IF ~is_admin(sender, data)
    THEN Outcome(data, FALSE, Reply("only_admins_end", <<>>))
    ELSE IF ~data.session.active
    THEN Outcome(data, FALSE, Reply("no_active_session", <<>>))
    ELSE LET participants == data.session.participants IN
         IF participants = <<>>
         THEN Outcome(data, FALSE, Reply("no_players", <<>>))
         ELSE LET player_list == [i \in 1..Len(participants) |->
                                     PlayerInfo(data, participants[i])]
                  teams == create_teams(player_list, draws)
              IN  Outcome([data EXCEPT !.session.active = FALSE,
                                       !.session.participants = <<>>], TRUE,
                          Reply("teams", <<teams, Len(player_list), Len(teams)>>))

\* CmdEnd closing the session when nobody has joined
CmdEnd_closes_empty(data, sender, draws) ==
    IF ~is_admin(sender, data)
    THEN Outcome(data, FALSE, Reply("only_admins_end", <<>>))
    ELSE IF ~data.session.active
    THEN Outcome(data, FALSE, Reply("no_active_session", <<>>))
    ELSE LET participants == data.session.participants IN
         IF participants = <<>>
         THEN Outcome([data EXCEPT !.session.active = FALSE], TRUE,
                      Reply("no_players", <<>>))
         ELSE LET player_list == [i \in 1..Len(participants) |->
                                     PlayerInfo(data, participants[i])]
                  teams == create_teams(player_list, draws)
              IN  Outcome([data EXCEPT !.session.active = FALSE], TRUE,
                          Reply("teams", <<teams, Len(player_list), Len(teams)>>))

CmdEnd(data, sender, draws) ==
    IF ~is_admin(sender, data)
    THEN Outcome(data, FALSE, Reply("only_admins_end", <<>>))
    ELSE IF ~data.session.active
    THEN Outcome(data, FALSE, Reply("no_active_session", <<>>))
    ELSE LET participants == data.session.participants IN
         IF participants = <<>>
         THEN Outcome(data, FALSE, Reply("no_players", <<>>))
         ELSE LET player_list == [i \in 1..Len(participants) |->
                                     PlayerInfo(data, participants[i])]
                  teams == create_teams(player_list, draws)
              IN  Outcome([data EXCEPT !.session.active = FALSE], TRUE,
                          Reply("teams", <<teams, Len(player_list), Len(teams)>>))

\* CmdStatus writing the store back after rendering it
CmdStatus_saves(data, sender) ==
    IF ~is_admin(sender, data)
    THEN Outcome(data, FALSE, Reply("admin_only", <<>>))
    ELSE LET session == data.session
             participant_count == Len(session.participants)
             names == [i \in 1..participant_count |->
                          PlayerInfo(data, session.participants[i]).name]
         IN  Outcome(data, TRUE,
                     Reply("status", <<session.active, participant_count, names>>))

CmdStatus(data, sender) ==
    IF ~is_admin(sender, data)
    THEN Outcome(data, FALSE, Reply("admin_only", <<>>))
    ELSE LET session == data.session
             participant_count == Len(session.participants)
             names == [i \in 1..participant_count |->
                          PlayerInfo(data, session.participants[i]).name]
         IN  Outcome(data, FALSE,
                     Reply("status", <<session.active, participant_count, names>>))

\* CmdReset without the admin check
CmdReset_unchecked(data, sender) ==
    Outcome([data EXCEPT !.session.active = FALSE,
                         !.session.participants = <<>>], TRUE,
            Reply("reset", <<>>))

CmdReset(data, sender) ==
    IF ~is_admin(sender, data)
    THEN Outcome(data, FALSE, Reply("only_admins_reset", <<>>))
    ELSE Outcome([data EXCEPT !.session.active = FALSE,
                              !.session.participants = <<>>], TRUE,
                 Reply("reset", <<>>))

\* CmdIn appending the sender whether or not it is in the roster
CmdIn_no_dedup(data, sender, profile_name) ==
    IF ~data.session.active
    THEN Outcome(data, FALSE, Reply("in_no_active_selection", <<>>))
    ELSE LET d1 == IF sender \notin DOMAIN data.players
                   THEN [data EXCEPT !.players =
                            @ @@ (sender :> [name |-> profile_name])]
                   ELSE data
             d2 == [d1 EXCEPT !.session.participants = Append(@, sender)]
         IN  Outcome(d2, TRUE,
                     Reply("is_in", <<d2.players[sender].name,
                                      Len(d2.session.participants)>>))

\* CmdIn adding the sender to the roster without registering it as a player
CmdIn_unregistered(data, sender, profile_name) ==
    IF ~data.session.active
    THEN Outcome(data, FALSE, Reply("in_no_active_selection", <<>>))
    ELSE IF ~InList(sender, data.session.participants)
         THEN LET d2 == [data EXCEPT !.session.participants = Append(@, sender)]
              IN  Outcome(d2, TRUE,
                          Reply("is_in", <<PlayerInfo(d2, sender).name,
                                           Len(d2.session.participants)>>))
         ELSE Outcome(data, FALSE,
                      Reply("already_in", <<PlayerInfo(data, sender).name>>))

\* CmdIn putting a new participant at the head of the roster
CmdIn_prepends(data, sender, profile_name) ==
    IF ~data.session.active
    THEN Outcome(data, FALSE, Reply("in_no_active_selection", <<>>))
    ELSE LET d1 == IF sender \notin DOMAIN data.players
                   THEN [data EXCEPT !.players =
                            @ @@ (sender :> [name |-> profile_name])]
                   ELSE data
         IN  IF ~InList(sender, d1.session.participants)
             THEN LET d2 == [d1 EXCEPT !.session.participants = <<sender>> \o @]
                  IN  Outcome(d2, TRUE,
                              Reply("is_in", <<d2.players[sender].name,
                                               Len(d2.session.participants)>>))
             ELSE Outcome(d1, FALSE,
                          Reply("already_in", <<d1.players[sender].name>>))

CmdIn(data, sender, profile_name) ==
    IF ~data.session.active
    THEN Outcome(data, FALSE, Reply("in_no_active_selection", <<>>))
    ELSE LET d1 == IF sender \notin DOMAIN data.players
                   THEN [data EXCEPT !.players =
                            @ @@ (sender :> [name |-> profile_name])]
                   ELSE data
         IN  IF ~InList(sender, d1.session.participants)
             THEN LET d2 == [d1 EXCEPT !.session.participants = Append(@, sender)]
                  IN  Outcome(d2, TRUE,
                              Reply("is_in", <<d2.players[sender].name,
                                               Len(d2.session.participants)>>))
             ELSE Outcome(d1, FALSE,
                          Reply("already_in", <<d1.players[sender].name>>))

\* CmdOut without the check that the session is active
CmdOut_ungated(data, sender, profile_name) ==
    IF InList(sender, data.session.participants)
    THEN LET d1 == [data EXCEPT !.session.participants = ListRemove(@, sender)]
             player_name == IF sender \in DOMAIN d1.players
                            THEN d1.players[sender].name
                            ELSE profile_name
         IN  Outcome(d1, TRUE,
                     Reply("is_out", <<player_name, Len(d1.session.participants)>>))
    ELSE Outcome(data, FALSE, Reply("not_in_list", <<>>))

CmdOut(data, sender, profile_name) ==
    IF ~data.session.active
    THEN Outcome(data, FALSE, Reply("out_no_active_selection", <<>>))
    ELSE IF InList(sender, data.session.participants)
    THEN LET d1 == [data EXCEPT !.session.participants = ListRemove(@, sender)]
             player_name == IF sender \in DOMAIN d1.players
                            THEN d1.players[sender].name
                            ELSE profile_name
         IN  Outcome(d1, TRUE,
                     Reply("is_out", <<player_name, Len(d1.session.participants)>>))
    ELSE Outcome(data, FALSE, Reply("not_in_list", <<>>))

CmdHelp(data, sender) ==
    Outcome(data, FALSE, Reply("help", <<is_admin(sender, data)>>))

\* CmdOther answering every unmatched text with the notice
CmdOther_always_notice(data, msg) ==
    Outcome(data, FALSE, Reply("unknown_command", <<>>))

CmdOther(data, msg) ==
    IF StartsWith(msg, K_slash)
    THEN Outcome(data, FALSE, Reply("unknown_command", <<>>))
    ELSE Outcome(data, FALSE, Reply("no_body", <<>>))

\* whatsapp_bot after load_data(): `data` is the loaded store, `draws` the
\* random draws of the shuffle
whatsapp_bot(data, sender, msg_body, profile_name, draws) ==
    LET msg == Lower(Strip(msg_body)) IN
    IF StartsWith(msg, K_addadmin) THEN AddAdmin(data, sender)
    ELSE IF msg = K_start THEN CmdStart(data, sender)
    ELSE IF msg = K_end THEN CmdEnd(data, sender, draws)
    ELSE IF msg = K_status THEN CmdStatus(data, sender)
    ELSE IF msg = K_reset THEN CmdReset(data, sender)
    ELSE IF msg = K_in THEN CmdIn(data, sender, profile_name)
    ELSE IF msg = K_out THEN CmdOut(data, sender, profile_name)
    ELSE IF msg = K_help THEN CmdHelp(data, sender)
    ELSE CmdOther(data, msg)

\* save_data(data) when the handler called it, no exception raised
Saved(old, out) == IF out.saved THEN save_data(old, out.data, "none") ELSE old

----------------------------------------------------------------------------
(* Requests *)

Absent == "<absent>"

\* request.values.get(key, default)
ValuesGet(field, default) == IF field = Absent THEN default ELSE field

\* the profile name WhatsApp sends for an identity
ProfileOf(sender) == IF sender = "A" THEN "Ann" ELSE "Bob"

\* the form values of the requests that are sent: every identity sends every
\* body under its profile name, and B also sends "in" with no profile name
Forms ==
    {[From |-> s, Body |-> b, ProfileName |-> ProfileOf(s)] :
        s \in Senders, b \in Bodies}
    \cup {[From |-> "B", Body |-> B_in, ProfileName |-> Absent]}

\* the handler on the form values of a request (app.py lines 100-102)
Run(data, form, draws) ==
    whatsapp_bot(data, form.From, form.Body,
                 ValuesGet(form.ProfileName, "Player"), draws)

\* what a run can leave behind: a successful /end shuffles the participants
\* in create_teams, every other run makes no draw
Outcomes(data, form) ==
    LET dry == Run(data, form, <<>>) IN
    IF dry.reply.kind = "teams"
    THEN {Run(data, form, draws) :
             draws \in Draws(Len(data.session.participants))}
    ELSE {dry}

Idle == [pc |-> "idle"]
None == [pc |-> "none"]

Init ==
    /\ store = init_data
    /\ inflight = [w \in Workers |-> Idle]
    /\ last = None
    /\ crowned = {}
    /\ batch = None
    /\ tplayers = <<>>
    /\ tdraws = <<>>
    /\ tteams = <<>>
    /\ tpc = "done"

\* load_data() at the start of a request (app.py line 105)
LoadData(w) ==
    /\ inflight[w].pc = "idle"
    /\ inflight' = [inflight EXCEPT
                       ![w] = [pc |-> "loaded", data |-> load_data(store, FALSE)]]
    /\ UNCHANGED <<store, teamVars>>

\* the rest of the request, `out` being what the handler makes of the loaded
\* snapshot: save if the branch saves, return the reply
HandleRequest(w, out) ==
    /\ inflight[w].pc = "loaded"
    /\ store' = Saved(store, out)
    /\ inflight' = [inflight EXCEPT ![w] = Idle]
    /\ UNCHANGED teamVars

\* every worker holds the same snapshot, and it is still the persisted store
AllShareSnapshot ==
    \A w \in Workers : inflight[w].pc = "loaded" /\ inflight[w].data = store

----------------------------------------------------------------------------
(* Spec: the concurrent program, observing each reply *)

Load(w) ==
    /\ LoadData(w)
    /\ last' = None
    /\ UNCHANGED <<crowned, batch>>

Handle(w, form, out) ==
    /\ HandleRequest(w, out)
    /\ last' = [pc |-> "replied", form |-> form, reply |-> out.reply,
                saved |-> out.saved]
    /\ UNCHANGED <<crowned, batch>>

\* The form values do not depend on the store, so they are drawn here.
Request(w) ==
    \E form \in Forms :
        \E out \in Outcomes(inflight[w].data, form) : Handle(w, form, out)

Next ==
    \/ \E w \in Workers : Load(w)
    \/ \E w \in Workers : inflight[w].pc = "loaded" /\ Request(w)

Spec == Init /\ [][Next]_vars

----------------------------------------------------------------------------
(* SpecRace: the concurrent program, observing who was made admin and the
   requests that ran concurrently from one store *)

RaceLoad(w) ==
    /\ LoadData(w)
    /\ batch' = None
    /\ UNCHANGED <<last, crowned>>

RaceHandle(w, form, out) ==
    /\ HandleRequest(w, out)
    /\ crowned' = IF out.reply.kind = "now_admin"
                  THEN crowned \cup {form.From} ELSE crowned
    /\ batch' =
          IF batch = None
          THEN IF AllShareSnapshot
               THEN [pc |-> "batch", data |-> store, forms |-> <<form>>]
               ELSE None
          ELSE [batch EXCEPT !.forms = Append(@, form)]
    /\ UNCHANGED last

RaceRequest(w) ==
    \E form \in Forms :
        \E out \in Outcomes(inflight[w].data, form) : RaceHandle(w, form, out)

RaceNext ==
    \/ \E w \in Workers : RaceLoad(w)
    \/ \E w \in Workers : inflight[w].pc = "loaded" /\ RaceRequest(w)

SpecRace == Init /\ [][RaceNext]_vars

----------------------------------------------------------------------------
(* SpecFail: the concurrent program with loads and saves that may fail,
   observing each reply, whether the load failed and how the save went *)

\* the requests sent in SpecFail: the admin registration, /start, "in", /end
\* and /status
FailForms ==
    {f \in Forms :
        LET msg == Lower(Strip(f.Body)) IN
        StartsWith(msg, K_addadmin) \/ msg \in {K_start, K_in, K_end, K_status}}

\* load_data() at the start of a request; a file that does not exist is not
\* opened, so its load cannot raise
FailLoad(w, fails) ==
    /\ inflight[w].pc = "idle"
    /\ fails => store # init_data
    /\ inflight' = [inflight EXCEPT
                       ![w] = [pc |-> "loaded",
                               data |-> load_data(store, fails),
                               failed |-> fails \/ store = Truncated]]
    /\ last' = None
    /\ UNCHANGED <<store, crowned, batch, teamVars>>

\* the rest of the request: the save, if the branch saves, goes as `fault`
\* tells, and the reply is returned
FailHandle(w, form, out, fault) ==
    /\ inflight[w].pc = "loaded"
    /\ ~out.saved => fault = "none"
    /\ store' = IF out.saved THEN save_data(store, out.data, fault) ELSE store
    /\ inflight' = [inflight EXCEPT ![w] = Idle]
    /\ last' = [pc |-> "replied", form |-> form, reply |-> out.reply,
                saved |-> out.saved, failed |-> inflight[w].failed,
                fault |-> fault]
    /\ UNCHANGED <<crowned, batch, teamVars>>

FailRequest(w) ==
    \E form \in FailForms :
        \E out \in Outcomes(inflight[w].data, form) :
            \E fault \in Faults : FailHandle(w, form, out, fault)

FailNext ==
    \/ \E w \in Workers : \E fails \in BOOLEAN : FailLoad(w, fails)
    \/ \E w \in Workers : inflight[w].pc = "loaded" /\ FailRequest(w)

SpecFail == Init /\ [][FailNext]_vars

----------------------------------------------------------------------------
(* SpecTeams: create_teams on its own, the shuffle taken one draw at a time *)

\* the player_list of n players; with `distinct` false, names repeat
PlayerList(n, distinct) ==
    [i \in 1..n |-> [name |-> <<"p", IF distinct THEN i ELSE i % 2>>]]

InitTeams ==
    /\ store = init_data
    /\ inflight = [w \in Workers |-> Idle]
    /\ last = None
    /\ crowned = {}
    /\ batch = None
    /\ tplayers \in {PlayerList(n, d) : n \in 0..MaxPlayers, d \in BOOLEAN}
    /\ tdraws = <<>>
    /\ tteams = <<>>
    /\ tpc = "shuffle"

\* the draws so far that moved an element
SwapsMade == Cardinality({k \in 1..Len(tdraws) : tdraws[k] # Len(tplayers) - k + 1})

\* one iteration of random.shuffle: i = n - (draws made), j drawn from 1..i
TeamsDraw(j) ==
    /\ tpc = "shuffle"
    /\ Len(tdraws) < Len(tplayers) - 1
    /\ LET i == Len(tplayers) - Len(tdraws) IN
          /\ j <= i
          /\ j # i => SwapsMade < MaxSwaps
    /\ tdraws' = Append(tdraws, j)
    /\ UNCHANGED <<store, inflight, last, crowned, batch, tplayers, tteams, tpc>>

\* the slicing and the return, once the shuffle is over (or was never begun)
TeamsReturn ==
    /\ tpc = "shuffle"
    /\ Len(tdraws) >= Len(tplayers) - 1
    /\ tteams' = create_teams(tplayers, tdraws)
    /\ tpc' = "done"
    /\ UNCHANGED <<store, inflight, last, crowned, batch, tplayers, tdraws>>

NextTeams ==
    \/ \E j \in 1..Len(tplayers) : TeamsDraw(j)
    \/ TeamsReturn

SpecTeams == InitTeams /\ [][NextTeams]_vars

----------------------------------------------------------------------------
(* Properties of create_teams (SpecTeams) *)

RECURSIVE Flatten(_)
Flatten(ss) == IF ss = <<>> THEN <<>> ELSE Head(ss) \o Flatten(Tail(ss))

\* the bag of the elements of a sequence
SeqToBag(s) == [x \in Range(s) |-> Cardinality({i \in 1..Len(s) : s[i] = x})]

TeamSizes(teams) == [t \in 1..Len(teams) |-> Len(teams[t])]

\* C3: for a non-empty list of n players, whatever the shuffle draws,
\* create_teams returns ceil(n/6) teams that together hold every input
\* element exactly once; every team but the last has 6 members and the last
\* has n - 6*(ceil(n/6)-1) members, between 1 and 6; the empty list gives no
\* teams.
C3_Partition ==
    tpc = "done" =>
        LET n == Len(tplayers)
            k == Len(tteams)
        IN  IF n = 0 THEN tteams = <<>>
            ELSE /\ 6 * (k - 1) < n /\ n <= 6 * k
                 /\ SeqToBag(Flatten(tteams)) = SeqToBag(tplayers)
                 /\ Len(Flatten(tteams)) = n
                 /\ \A t \in 1..(k - 1) : Len(tteams[t]) = 6
                 /\ Len(tteams[k]) = n - 6 * (k - 1)
                 /\ Len(tteams[k]) \in 1..6

\* 13 distinct players, shuffled out of their order, came back as 6, 6, 1
C3_Witness ==
    /\ tpc = "done"
    /\ Len(tplayers) = 13
    /\ Cardinality(Range(tplayers)) = 13
    /\ Flatten(tteams) # tplayers
    /\ TeamSizes(tteams) = <<6, 6, 1>>

----------------------------------------------------------------------------
(* Properties of concurrent requests (SpecRace) *)

\* one request run on its own: it loads s, and saves or not
StoreAfter(s, form) == Saved(s, Run(s, form, <<>>))

\* the requests of `forms` run one after another from s
RECURSIVE SerialStore(_, _)
SerialStore(s, forms) ==
    IF forms = <<>> THEN s
    ELSE SerialStore(StoreAfter(s, Head(forms)), Tail(forms))

Orders(n) ==
    {p \in [1..n -> 1..n] : \A i, j \in 1..n : i # j => p[i] # p[j]}

SerialStores(s, forms) ==
    {SerialStore(s, [i \in 1..Len(forms) |-> forms[p[i]]]) :
        p \in Orders(Len(forms))}

BatchDone == batch.pc = "batch" /\ Len(batch.forms) = Cardinality(Workers)

\* C1: when the workers' requests all loaded the same store and have all
\* finished, the persisted store is the one that running those requests one
\* after another, in some order, from that store would have left.
C1_Serializable ==
    BatchDone => store \in SerialStores(batch.data, batch.forms)

\* C2: at most one sender is ever sent the bootstrap-success reply, and a
\* sender that was sent it is in the persisted admins from then on.
C2_BootstrapOnce ==
    /\ Cardinality(crowned) <= 1
    /\ crowned \subseteq Range(store.admins)

----------------------------------------------------------------------------
(* Properties of the commands (Spec) *)

\* the normalised command text of a request
Msg(form) == Lower(Strip(form.Body))

\* this step is worker w finishing its request; `last'` describes it
HandledBy(w) == inflight[w].pc = "loaded" /\ inflight'[w].pc = "idle"

NoDuplicates(s) == \A i, j \in 1..Len(s) : i # j => s[i] # s[j]

AdminDenial(msg) ==
    CASE msg = K_start -> "only_admins_start"
      [] msg = K_end -> "only_admins_end"
      [] msg = K_status -> "admin_only"
      [] msg = K_reset -> "only_admins_reset"

\* C4: a request for /start, /end, /status or /reset whose sender is not in
\* the admins it loaded gets that command's denial and writes nothing.
C4_NonAdminDenied ==
    [][\A w \in Workers :
          ( /\ HandledBy(w)
            /\ Msg(last'.form) \in {K_start, K_end, K_status, K_reset}
            /\ last'.form.From \notin Range(inflight[w].data.admins) )
          => /\ last'.reply = Reply(AdminDenial(Msg(last'.form)), <<>>)
             /\ store' = store]_vars

\* a non-admin was denied /reset while a session with a roster was active
C4_Witness ==
    /\ last.pc = "replied"
    /\ last.reply.kind = "only_admins_reset"
    /\ last.form.From \notin Range(store.admins)
    /\ store.session.active
    /\ store.session.participants # <<>>

\* C5: the persisted participants never hold an identity twice, and an "in"
\* whose sender is already in the roster it loaded, the session active, gets
\* the already-in reply and writes nothing.
C5_RosterDedup ==
    [][/\ NoDuplicates(store'.session.participants)
       /\ \A w \in Workers :
            ( /\ HandledBy(w)
              /\ Msg(last'.form) = K_in
              /\ inflight[w].data.session.active
              /\ InList(last'.form.From, inflight[w].data.session.participants) )
            => /\ last'.reply.kind = "already_in"
               /\ store' = store]_vars

\* a second "in" was answered already-in with two identities in the roster
C5_Witness ==
    /\ last.pc = "replied"
    /\ last.reply.kind = "already_in"
    /\ InList(last.form.From, store.session.participants)
    /\ Len(store.session.participants) = 2

\* C6: an "in" or "out" that loaded an inactive session gets the
\* no-active-selection denial and writes nothing.
C6_InactiveGate ==
    [][\A w \in Workers :
          ( /\ HandledBy(w)
            /\ Msg(last'.form) \in {K_in, K_out}
            /\ ~inflight[w].data.session.active )
          => /\ last'.reply =
                  Reply(IF Msg(last'.form) = K_in
                        THEN "in_no_active_selection"
                        ELSE "out_no_active_selection", <<>>)
             /\ store' = store]_vars

\* a participant's "out" was denied after the session ended: still in the
\* roster
C6_Witness ==
    /\ last.pc = "replied"
    /\ last.reply.kind = "out_no_active_selection"
    /\ InList(last.form.From, store.session.participants)
    /\ ~store.session.active

\* C7: an admin-register request that loaded a non-empty admins list writes
\* nothing and is answered already-admin (sender in the list) or
\* only-existing-admins (sender not in it); a request changes the admins only
\* when it is an admin-register request that loaded an empty list.
C7_AddAdminFrame ==
    [][\A w \in Workers :
          HandledBy(w) =>
            LET data == inflight[w].data
                sender == last'.form.From
                register == StartsWith(Msg(last'.form), K_addadmin)
            IN  /\ (register /\ data.admins # <<>>)
                   => /\ store' = store
                      /\ last'.reply =
                           Reply(IF InList(sender, data.admins)
                                 THEN "already_admin"
                                 ELSE "only_admins_add", <<>>)
                /\ (store' # store /\ store'.admins # data.admins)
                   => /\ register
                      /\ data.admins = <<>>
                      /\ last'.reply.kind = "now_admin"]_vars

\* a non-admin's admin-register request was refused, an admin existing
C7_Witness ==
    /\ last.pc = "replied"
    /\ last.reply.kind = "only_admins_add"
    /\ store.admins # <<>>
    /\ last.form.From \notin Range(store.admins)

\* C8: an /end from an admin that loaded an active session with a non-empty
\* roster saves the store it loaded with only session.active changed, to
\* false; and a request that loaded an inactive session saves a different
\* roster only as a successful /start or /reset.
C8_EndKeepsRoster ==
    [][\A w \in Workers :
          HandledBy(w) =>
            LET data == inflight[w].data IN
            /\ ( /\ Msg(last'.form) = K_end
                 /\ is_admin(last'.form.From, data)
                 /\ data.session.active
                 /\ data.session.participants # <<>> )
               => /\ last'.reply.kind = "teams"
                  /\ store' = [data EXCEPT !.session.active = FALSE]
            /\ ( /\ ~data.session.active
                 /\ store' # store
                 /\ store'.session.participants # data.session.participants )
               => last'.reply.kind \in {"started", "reset"}]_vars

\* teams were announced for a roster of two, which is still there
C8_Witness ==
    /\ last.pc = "replied"
    /\ last.reply.kind = "teams"
    /\ ~store.session.active
    /\ Len(store.session.participants) = 2

\* C9: the persisted session.active starts false, turns true only in the
\* step of a successful /start and turns false only in the step of a
\* successful /end or /reset.
C9_FlagTransitions ==
    /\ store.session.active = FALSE
    /\ [][store'.session.active # store.session.active
          => /\ last'.pc = "replied"
             /\ IF store'.session.active
                THEN last'.reply.kind = "started"
                ELSE last'.reply.kind \in {"teams", "reset"}]_vars

\* C10: a player record in the persisted store is there, under the same
\* name, in every later persisted store.
C10_RegistryAppendOnly ==
    [][\A p \in DOMAIN store.players :
          /\ p \in DOMAIN store'.players
          /\ store'.players[p].name = store.players[p].name]_vars

\* C11: an /end from a sender in the admins it loaded is answered
\* no-active-session when the session it loaded is inactive, and
\* no-players-joined when that session is active with an empty roster; in
\* both cases nothing is written, so the persisted session of an /end on an
\* empty roster that ran on the current store stays active.
C11_EndPrecondition ==
    [][\A w \in Workers :
          ( /\ HandledBy(w)
            /\ Msg(last'.form) = K_end
            /\ is_admin(last'.form.From, inflight[w].data) )
          => LET session == inflight[w].data.session IN
             /\ ~session.active
                => /\ last'.reply = Reply("no_active_session", <<>>)
                   /\ store' = store
             /\ (session.active /\ session.participants = <<>>)
                => /\ last'.reply = Reply("no_players", <<>>)
                   /\ store' = store
                   /\ inflight[w].data = store => store'.session.active]_vars

\* an admin's /end was refused for want of players, and the session is
\* still active
C11_Witness ==
    /\ last.pc = "replied"
    /\ last.reply.kind = "no_players"
    /\ is_admin(last.form.From, store)
    /\ store.session.active
    /\ store.session.participants = <<>>

\* C12: an "in" that loaded an active session without its sender in the
\* roster saves that roster with the sender appended and reports the length
\* of the roster it saved; an "out" that loaded an active session with its
\* sender in the roster saves the loaded store with exactly that sender taken
\* out of the roster, the others in their order, and reports the remaining
\* count; an "out" whose sender is not in the roster it loaded writes
\* nothing.
C12_JoinLeave ==
    [][\A w \in Workers :
          HandledBy(w) =>
            LET data == inflight[w].data
                roster == data.session.participants
                sender == last'.form.From
            IN  /\ ( /\ Msg(last'.form) = K_in
                     /\ data.session.active
                     /\ ~InList(sender, roster) )
                   => /\ store'.session.participants = Append(roster, sender)
                      /\ last'.reply.kind = "is_in"
                      /\ last'.reply.args[2] = Len(store'.session.participants)
                /\ ( /\ Msg(last'.form) = K_out
                     /\ data.session.active
                     /\ InList(sender, roster) )
                   => /\ store' = [data EXCEPT !.session.participants =
                                      SelectSeq(roster, LAMBDA x : x # sender)]
                      /\ Len(store'.session.participants) = Len(roster) - 1
                      /\ last'.reply.kind = "is_out"
                      /\ last'.reply.args[2] = Len(store'.session.participants)
                /\ (Msg(last'.form) = K_out /\ ~InList(sender, roster))
                   => store' = store]_vars

\* a second identity joined behind the first and was told the count is 2
C12_Witness ==
    /\ last.pc = "replied"
    /\ last.reply.kind = "is_in"
    /\ last.reply.args[2] = 2
    /\ Len(store.session.participants) = 2
    /\ store.session.participants[2] = last.form.From

\* the replies of a command denied for the sender's role or the session's
\* state, and of /status, /help, an unknown slash command and other text
NoSaveKinds ==
    {"only_admins_add", "only_admins_start", "only_admins_end", "admin_only",
     "only_admins_reset", "no_active_session", "no_players",
     "in_no_active_selection", "out_no_active_selection",
     "status", "help", "unknown_command", "no_body"}

\* C13: a request is one load of the whole store, which writes nothing,
\* followed by one step that either calls no save and leaves the persisted
\* store as it is, or replaces the whole store by the data the handler
\* computed from the snapshot; a denied command, /status, /help, an unknown
\* slash command and other text call no save.
C13_OneLoadOneSave ==
    [][\A w \in Workers :
          inflight'[w] # inflight[w] =>
            \/ /\ inflight[w].pc = "idle"
               /\ inflight'[w] = [pc |-> "loaded", data |-> store]
               /\ store' = store
            \/ /\ HandledBy(w)
               /\ IF last'.saved
                  THEN \E out \in Outcomes(inflight[w].data, last'.form) :
                          /\ out.reply = last'.reply
                          /\ store' = out.data
                  ELSE store' = store
               /\ last'.reply.kind \in NoSaveKinds => ~last'.saved]_vars

\* an admin read the status of an active session with a participant, and no
\* save was made
C13_Witness ==
    /\ last.pc = "replied"
    /\ last.reply.kind = "status"
    /\ ~last.saved
    /\ store.session.active
    /\ store.session.participants # <<>>

\* the normalised text is one of the commands
IsCommand(msg) ==
    \/ StartsWith(msg, K_addadmin)
    \/ msg \in {K_start, K_end, K_status, K_reset, K_in, K_out, K_help}

\* C16: a request whose normalised text is none of the commands is answered
\* with the unknown-command notice when the text starts with "/" and with no
\* body otherwise, and writes nothing, whoever sent it and whatever store it
\* loaded.
C16_Fallback ==
    [][\A w \in Workers :
          (HandledBy(w) /\ ~IsCommand(Msg(last'.form)))
          => /\ last'.reply =
                  Reply(IF Head(Msg(last'.form)) = "/"
                        THEN "unknown_command" ELSE "no_body", <<>>)
             /\ store' = store]_vars

\* plain text from a participant who is no admin got no reply body, the
\* session active
C16_Witness ==
    /\ last.pc = "replied"
    /\ last.reply.kind = "no_body"
    /\ ~IsCommand(Msg(last.form))
    /\ ~is_admin(last.form.From, store)
    /\ InList(last.form.From, store.session.participants)
    /\ store.session.active

\* C17: a /start from a sender in the admins it loaded, whatever session it
\* loaded, is answered selection-started and saves the loaded store with
\* session.active true and the roster empty, admins and players as loaded;
\* the same /start run again on the store it saved leaves that store.
C17_StartResets ==
    [][\A w \in Workers :
          ( /\ HandledBy(w)
            /\ Msg(last'.form) = K_start
            /\ is_admin(last'.form.From, inflight[w].data) )
          => LET data == inflight[w].data IN
             /\ last'.reply = Reply("started", <<>>)
             /\ store' = [admins |-> data.admins,
                          players |-> data.players,
                          session |-> [active |-> TRUE, participants |-> <<>>]]
             /\ StoreAfter(store', last'.form) = store'
             /\ StoreAfter(StoreAfter(data, last'.form), last'.form)
                   = StoreAfter(data, last'.form)]_vars

\* a /start was answered and left an active session with an empty roster,
\* the players of an earlier roster still registered
C17_Witness ==
    /\ last.pc = "replied"
    /\ last.reply.kind = "started"
    /\ store.session.active
    /\ store.session.participants = <<>>
    /\ store.players # EmptyMap

----------------------------------------------------------------------------
(* Properties of failing loads and saves (SpecFail) *)

\* the reply bodies the handler can return
ReplyKinds ==
    {"now_admin", "already_admin", "only_admins_add", "only_admins_start",
     "started", "only_admins_end", "no_active_session", "no_players", "teams",
     "admin_only", "status", "only_admins_reset", "reset",
     "in_no_active_selection", "is_in", "already_in",
     "out_no_active_selection", "is_out", "not_in_list", "help",
     "unknown_command", "no_body"}

\* C14: a load that fails hands the request the freshly initialised store;
\* the request then replies, and saves, exactly what the handler makes of
\* that store, and ends back at idle with one of the handler's replies.
C14_LoadFallback ==
    [][\A w \in Workers :
          /\ ( /\ inflight[w].pc = "idle"
               /\ inflight'[w].pc = "loaded"
               /\ inflight'[w].failed )
             => inflight'[w].data = init_data
          /\ (HandledBy(w) /\ inflight[w].failed)
             => LET out == Run(init_data, last'.form, <<>>) IN
                /\ last'.reply = out.reply
                /\ last'.reply.kind \in ReplyKinds
                /\ last'.saved = out.saved
                /\ last'.fault = "none" => store' = Saved(store, out)
                /\ inflight'[w] = Idle]_vars

\* a request whose load failed made its sender the admin of a store with no
\* players, while another request holds the store it had loaded before,
\* players registered
C14_Witness ==
    /\ last.pc = "replied"
    /\ last.failed
    /\ last.reply.kind = "now_admin"
    /\ store = [init_data EXCEPT !.admins = <<last.form.From>>]
    /\ \E w \in Workers :
          /\ inflight[w].pc = "loaded"
          /\ ~inflight[w].failed
          /\ inflight[w].data.players # EmptyMap

\* C15: a request whose save fails returns the reply of the run whose save
\* succeeds, and the next load finds the content that was persisted before
\* the request.
C15_SaveFailure ==
    [][\A w \in Workers :
          (HandledBy(w) /\ last'.saved /\ last'.fault # "none")
          => /\ last'.reply \in
                  {out.reply : out \in Outcomes(inflight[w].data, last'.form)}
             /\ load_data(store', FALSE) = load_data(store, FALSE)]_vars

----------------------------------------------------------------------------
(* Invariants of the persisted store under interleaving (Spec) *)

\* the names a /status or /end reply renders
RenderedNames(reply) ==
    CASE reply.kind = "status" -> Range(reply.args[3])
      [] reply.kind = "teams" ->
            {m.name : m \in Range(Flatten(reply.args[1]))}
      [] OTHER -> {}

\* C18: every identity in the persisted roster has a record in the persisted
\* players, and no /status or /end reply renders the fallback name.
C18_RosterRegistered ==
    /\ Range(store.session.participants) \subseteq DOMAIN store.players
    /\ last.pc = "replied" => "Unknown" \notin RenderedNames(last.reply)

\* a /status listed the two participants under their names
C18_Witness ==
    /\ last.pc = "replied"
    /\ last.reply.kind = "status"
    /\ Len(store.session.participants) = 2
    /\ RenderedNames(last.reply) =
          {store.players[p].name : p \in Range(store.session.participants)}

\* C19: the persisted admins hold at most one identity.
C19_AtMostOneAdmin ==
    Len(store.admins) <= 1

\* a registration that had loaded the empty store was answered after another
\* identity had become admin, seen by the other request: the admins are the
\* late registrant alone
C19_Witness ==
    /\ last.pc = "replied"
    /\ last.reply.kind = "now_admin"
    /\ store.admins = <<last.form.From>>
    /\ \E w \in Workers :
          /\ inflight[w].pc = "loaded"
          /\ inflight[w].data.admins # <<>>
          /\ inflight[w].data.admins # store.admins

\* C20: a persisted store with an active session or a non-empty roster has a
\* non-empty admins list.
C20_SessionNeedsAdmin ==
    (store.session.active \/ store.session.participants # <<>>)
        => store.admins # <<>>

\* an identity that is no admin joined the active session an admin started
C20_Witness ==
    /\ last.pc = "replied"
    /\ last.reply.kind = "is_in"
    /\ last.form.From \notin Range(store.admins)
    /\ store.session.active
    /\ InList(last.form.From, store.session.participants)
    /\ store.admins # <<>>

====
